---- MODULE Spec2Model ----
(***************************************************************************)
(* One call of ConversationAPI.enter_prompt (src/conversation/client.py;   *)
(* src/app.py is the same code without the chunked branch) against a       *)
(* server that streams newline-delimited JSON events.                      *)
(*                                                                         *)
(* A text is a sequence of one-character strings, a line is a sequence of  *)
(* lexical tokens.  The server chooses each line at the moment the client  *)
(* reads it; it may also end the stream or break the connection instead.   *)
(***************************************************************************)
EXTENDS Integers, Sequences, FiniteSets, TLC

\* The largest number of lines the server sends in one response.
MaxLines == 3

----------------------------------------------------------------------------
\* Texts and tokens

T_type == <<"t", "y", "p", "e">>
T_content == <<"c", "o", "n", "t", "e", "n", "t">>
T_status == <<"s", "t", "a", "t", "u", "s">>
T_ignored == <<"i", "g", "n", "o", "r", "e", "d">>
Hi == <<"H", "i">>
There == <<" ", "t", "h", "e", "r", "e">>
Fragments == {Hi, There}

Tok(k, v) == [k |-> k, v |-> v]
LB == Tok("punct", <<"{">>)
RB == Tok("punct", <<"}">>)
COLON == Tok("punct", <<":">>)
COMMA == Tok("punct", <<",">>)
SP == Tok("ws", <<" ">>)
\* a complete string literal "..."
Str(s) == Tok("str", s)
\* a string literal cut before its closing quote
Unterminated(s) == Tok("cut", s)
\* text that is no JSON token
Word(s) == Tok("word", s)
\* a byte that is not valid UTF-8
BadByte == Tok("byte", <<"0xff">>)

IsSpace(t) == t.k = "ws"
StripSpace(line) == SelectSeq(line, LAMBDA t : ~IsSpace(t))

----------------------------------------------------------------------------
\* The lines a server can send

\* {"type": "content", "content": "<f>"}
ContentLine(f) ==
    << LB, Str(T_type), COLON, SP, Str(T_content), COMMA, SP,
       Str(T_content), COLON, SP, Str(f), RB >>
\* {"type":"content","content":"<f>"}
CompactContentLine(f) == StripSpace(ContentLine(f))
\* {"type": "status", "content": "ignored"}
StatusLine ==
    << LB, Str(T_type), COLON, SP, Str(T_status), COMMA, SP,
       Str(T_content), COLON, SP, Str(T_ignored), RB >>
\* {"type":"status","content":"ignored"}
CompactStatusLine == StripSpace(StatusLine)
\* {"type": "content", "content": "H      (cut before the end)
TruncatedLine ==
    << LB, Str(T_type), COLON, SP, Str(T_content), COMMA, SP,
       Str(T_content), COLON, SP, Unterminated(<<"H">>) >>
\* oops
GarbageLine == << Word(<<"o", "o", "p", "s">>) >>
\* bytes that are not UTF-8
BinaryLine == << BadByte >>
EmptyLine == << >>

Lines ==
    {ContentLine(f) : f \in Fragments}
        \cup {CompactContentLine(f) : f \in Fragments}
        \cup {StatusLine, CompactStatusLine, TruncatedLine, GarbageLine,
              BinaryLine, EmptyLine}

----------------------------------------------------------------------------
\* The library functions the parser calls

\* bytes.decode('utf-8'): fails on a byte that is not UTF-8
Decodable(line) == \A i \in 1..Len(line) : line[i].k # "byte"

\* the literal '{"type": "content", "content":'
ContentPrefix ==
    << LB, Str(T_type), COLON, SP, Str(T_content), COMMA, SP,
       Str(T_content), COLON >>

\* a faulty variant: a prefix test that ignores white space
StartsWithIgnoringSpace(s, p) ==
    LET a == StripSpace(s)
        b == StripSpace(p)
    IN  Len(a) >= Len(b) /\ SubSeq(a, 1, Len(b)) = b

\* str.startswith
StartsWith(s, p) == Len(s) >= Len(p) /\ SubSeq(s, 1, Len(p)) = p

\* json.loads on one line: white space between tokens is insignificant; the
\* line must be an object { "k": "v", ... }.  The members are returned in
\* order as <<key, value>> pairs.
json_loads(line) ==
    LET t == StripSpace(line)
        n == Len(t)
        inner == IF n >= 2 THEN SubSeq(t, 2, n - 1) ELSE << >>
        m == Len(inner)
        count == (m + 1) \div 4
        shape ==
            /\ n >= 2
            /\ t[1] = LB
            /\ t[n] = RB
            /\ (m = 0 \/ m % 4 = 3)
            /\ \A j \in 0..(count - 1) :
                  /\ inner[4 * j + 1].k = "str"
                  /\ inner[4 * j + 2] = COLON
                  /\ inner[4 * j + 3].k = "str"
                  /\ (j < count - 1 => inner[4 * j + 4] = COMMA)
    IN  IF shape /\ m > 0
        THEN [ok |-> TRUE,
              obj |-> [j \in 1..count |->
                          << inner[4 * (j - 1) + 1].v, inner[4 * (j - 1) + 3].v >>]]
        ELSE [ok |-> shape, obj |-> << >>]

HasKey(obj, key) == \E j \in 1..Len(obj) : obj[j][1] = key

\* obj[key]: the last member with that key wins
JsonGet(obj, key) ==
    LET js == {j \in 1..Len(obj) : obj[j][1] = key}
        last_j == CHOOSE j \in js : \A i \in js : i <= j
    IN  obj[last_j][2]

\* The body of the loop of parse_chunks for one line: what it does with it.
Extract(line) ==
    IF line = << >>
    THEN [act |-> "skip", err |-> "none", val |-> << >>]
    ELSE IF ~Decodable(line)
    THEN [act |-> "raise", err |-> "UnicodeDecodeError", val |-> << >>]
    ELSE IF ~StartsWith(line, ContentPrefix)
    THEN [act |-> "skip", err |-> "none", val |-> << >>]
    ELSE LET j == json_loads(line)
         IN  IF ~j.ok
             THEN [act |-> "raise", err |-> "JSONDecodeError", val |-> << >>]
             ELSE IF ~HasKey(j.obj, T_content)
             THEN [act |-> "raise", err |-> "KeyError", val |-> << >>]
             ELSE [act |-> "yield", err |-> "none", val |-> JsonGet(j.obj, T_content)]

RECURSIVE Join(_)
\* "".join(parts)
Join(parts) == IF parts = << >> THEN << >> ELSE Head(parts) \o Join(Tail(parts))

\* a faulty variant: the new fragment put before the earlier ones
DeliverFirst(seq, v) == << v >> \o seq

\* `yield content`: the consumer receives the fragment after those before it
Deliver(seq, v) == Append(seq, v)

\* a faulty variant: the second except clause missing
SwallowsOnlyStreamConsumed(e) == e = "StreamConsumedError"

\* the except clauses around response.close()
Swallowed(e) == e \in {"StreamConsumedError", "RequestException"}

\* what response.close() can do: succeed, or raise one of the two exceptions
\* the code names, or raise any other exception
CloseOutcomes == {"ok", "StreamConsumedError", "RequestException", "OtherError"}

NoValue == [kind |-> "none", val |-> << >>]
StrValue(s) == [kind |-> "str", val |-> s]
GenValue == [kind |-> "generator", val |-> << >>]

----------------------------------------------------------------------------
VARIABLES
    pc,          \* where enter_prompt is: idle, send, parse, join, check, ret, returned, raised
    chunked,     \* the chunked argument of the call
    err,         \* the exception enter_prompt raised
    parsed_response,
    result,      \* what enter_prompt returned
    sendCalls,   \* calls of send_request
    conn,        \* the connection: none, open, released
    closeCalls,  \* calls of response.close()
    closeOutcome,
    gen,         \* parse_chunks: none, created, iter, line, suspended, done
    cur,         \* the line parse_chunks is looking at
    lines,       \* the lines read from the response so far
    ended,       \* iter_lines reached the end of the stream
    failed,      \* iter_lines failed with a transport error
    yielded,     \* the fragments parse_chunks has yielded to its consumer
    pending,     \* the caller is inside next() on the lazy sequence
    last,        \* how the caller's latest next() ended
    closed       \* the caller closed or dropped the lazy sequence early

vars ==
    << pc, chunked, err, parsed_response, result, sendCalls, conn, closeCalls,
       closeOutcome, gen, cur, lines, ended, failed, yielded, pending, last,
       closed >>

Init ==
    /\ pc = "idle"
    /\ chunked = FALSE
    /\ err = "none"
    /\ parsed_response = NoValue
    /\ result = NoValue
    /\ sendCalls = 0
    /\ conn = "none"
    /\ closeCalls = 0
    /\ closeOutcome = "none"
    /\ gen = "none"
    /\ cur = << >>
    /\ lines = << >>
    /\ ended = FALSE
    /\ failed = FALSE
    /\ yielded = << >>
    /\ pending = FALSE
    /\ last = "none"
    /\ closed = FALSE

----------------------------------------------------------------------------
\* enter_prompt

\* the caller calls enter_prompt(prompt, ..., chunked=c); the payload is built
enter_prompt_call ==
    /\ pc = "idle"
    /\ \E c \in BOOLEAN : chunked' = c
    /\ pc' = "send"
    /\ UNCHANGED << err, parsed_response, result, sendCalls, conn, closeCalls,
                    closeOutcome, gen, cur, lines, ended, failed, yielded,
                    pending, last, closed >>

\* requests.post(..., stream=True) returns a response whose body is unread
send_request_ok ==
    /\ pc = "send"
    /\ sendCalls' = sendCalls + 1
    /\ conn' = "open"
    /\ pc' = "parse"
    /\ UNCHANGED << chunked, err, parsed_response, result, closeCalls,
                    closeOutcome, gen, cur, lines, ended, failed, yielded,
                    pending, last, closed >>

\* requests.post raises (connection refused, timeout): nothing catches it
send_request_fails ==
    /\ pc = "send"
    /\ sendCalls' = sendCalls + 1
    /\ pc' = "raised"
    /\ err' = "TransportError"
    /\ UNCHANGED << chunked, parsed_response, result, conn, closeCalls,
                    closeOutcome, gen, cur, lines, ended, failed, yielded,
                    pending, last, closed >>

\* a faulty variant: the sequence starts reading before it is returned
parse_response_eager ==
    /\ pc = "parse"
    /\ chunked
    /\ gen' = "iter"
    /\ parsed_response' = GenValue
    /\ pc' = "check"
    /\ UNCHANGED << chunked, err, result, sendCalls, conn, closeCalls,
                    closeOutcome, cur, lines, ended, failed, yielded, pending,
                    last, closed >>

\* parse_response(response, True): return parse_chunks(), not yet started
parse_response_chunked ==
    /\ pc = "parse"
    /\ chunked
    /\ gen' = "created"
    /\ parsed_response' = GenValue
    /\ pc' = "check"
    /\ UNCHANGED << chunked, err, result, sendCalls, conn, closeCalls,
                    closeOutcome, cur, lines, ended, failed, yielded, pending,
                    last, closed >>

\* parse_response(response, False): "".join starts to drain parse_chunks()
parse_response_join ==
    /\ pc = "parse"
    /\ ~chunked
    /\ gen' = "iter"
    /\ pc' = "join"
    /\ UNCHANGED << chunked, err, parsed_response, result, sendCalls, conn,
                    closeCalls, closeOutcome, cur, lines, ended, failed,
                    yielded, pending, last, closed >>

----------------------------------------------------------------------------
\* parse_chunks

\* for line in response.iter_lines(): the next line arrives
iter_lines_next ==
    /\ gen = "iter"
    /\ Len(lines) < MaxLines
    /\ \E line \in Lines :
          /\ lines' = Append(lines, line)
          /\ cur' = line
    /\ gen' = "line"
    /\ UNCHANGED << pc, chunked, err, parsed_response, result, sendCalls, conn,
                    closeCalls, closeOutcome, ended, failed, yielded, pending,
                    last, closed >>

\* the stream ends: the loop ends and parse_chunks returns (StopIteration)
iter_lines_end ==
    /\ gen = "iter"
    /\ ended' = TRUE
    /\ gen' = "done"
    /\ IF chunked
       THEN /\ pending' = FALSE
            /\ last' = "StopIteration"
       ELSE UNCHANGED << pending, last >>
    /\ UNCHANGED << pc, chunked, err, parsed_response, result, sendCalls, conn,
                    closeCalls, closeOutcome, cur, lines, failed, yielded,
                    closed >>

\* a faulty variant: a failed read taken for the end of the stream
iter_lines_fails_silently ==
    /\ gen = "iter"
    /\ failed' = TRUE
    /\ gen' = "done"
    /\ IF chunked
       THEN /\ pending' = FALSE
            /\ last' = "StopIteration"
       ELSE UNCHANGED << pending, last >>
    /\ UNCHANGED << pc, chunked, err, parsed_response, result, sendCalls, conn,
                    closeCalls, closeOutcome, cur, lines, ended, yielded,
                    closed >>

\* reading the next line fails (connection lost): the exception leaves
\* parse_chunks, and in aggregate mode join, parse_response and enter_prompt
iter_lines_fails ==
    /\ gen = "iter"
    /\ failed' = TRUE
    /\ gen' = "done"
    /\ IF chunked
       THEN /\ pending' = FALSE
            /\ last' = "TransportError"
            /\ UNCHANGED << pc, err >>
       ELSE /\ pc' = "raised"
            /\ err' = "TransportError"
            /\ UNCHANGED << pending, last >>
    /\ UNCHANGED << chunked, parsed_response, result, sendCalls, conn,
                    closeCalls, closeOutcome, cur, lines, ended, yielded,
                    closed >>

\* the body of the loop for the line just read
parse_chunks_body ==
    /\ gen = "line"
    /\ LET o == Extract(cur)
       IN  /\ yielded' = IF o.act = "yield" THEN Deliver(yielded, o.val) ELSE yielded
           /\ gen' = IF o.act = "raise" THEN "done"
                     ELSE IF o.act = "yield" /\ chunked THEN "suspended"
                     ELSE "iter"
           /\ pending' = IF o.act = "skip" THEN pending ELSE FALSE
           /\ last' = IF ~chunked \/ o.act = "skip" THEN last
                      ELSE IF o.act = "yield" THEN "fragment"
                      ELSE o.err
           /\ pc' = IF ~chunked /\ o.act = "raise" THEN "raised" ELSE pc
           /\ err' = IF ~chunked /\ o.act = "raise" THEN o.err ELSE err
    /\ UNCHANGED << chunked, parsed_response, result, sendCalls, conn,
                    closeCalls, closeOutcome, cur, lines, ended, failed,
                    closed >>

\* join has drained parse_chunks: parse_response returns the string
join_done ==
    /\ pc = "join"
    /\ gen = "done"
    /\ parsed_response' = StrValue(Join(yielded))
    /\ pc' = "check"
    /\ UNCHANGED << chunked, err, result, sendCalls, conn, closeCalls,
                    closeOutcome, gen, cur, lines, ended, failed, yielded,
                    pending, last, closed >>

----------------------------------------------------------------------------
\* enter_prompt, after parse_response

\* if not chunked: try: response.close() except ...: pass
response_close ==
    /\ pc = "check"
    /\ ~chunked
    /\ closeCalls' = closeCalls + 1
    /\ \E o \in CloseOutcomes :
          /\ closeOutcome' = o
          /\ conn' = IF o = "ok" THEN "released" ELSE conn
          /\ pc' = IF o = "ok" \/ Swallowed(o) THEN "ret" ELSE "raised"
          /\ err' = IF o = "ok" \/ Swallowed(o) THEN err ELSE o
    /\ UNCHANGED << chunked, parsed_response, result, sendCalls, gen, cur,
                    lines, ended, failed, yielded, pending, last, closed >>

\* return parsed_response
enter_prompt_return ==
    /\ \/ pc = "ret"
       \/ pc = "check" /\ chunked
    /\ result' = parsed_response
    /\ pc' = "returned"
    /\ UNCHANGED << chunked, err, parsed_response, sendCalls, conn, closeCalls,
                    closeOutcome, gen, cur, lines, ended, failed, yielded,
                    pending, last, closed >>

----------------------------------------------------------------------------
\* The caller, holding the lazy sequence

\* a faulty variant: a finished sequence that resumes reading when asked again
caller_next_restarts ==
    /\ pc = "returned"
    /\ chunked
    /\ ~pending
    /\ gen = "done"
    /\ gen' = "iter"
    /\ pending' = TRUE
    /\ UNCHANGED << pc, chunked, err, parsed_response, result, sendCalls, conn,
                    closeCalls, closeOutcome, cur, lines, ended, failed,
                    yielded, last, closed >>

\* next(sequence): parse_chunks starts, or resumes after its yield
caller_next ==
    /\ pc = "returned"
    /\ chunked
    /\ ~pending
    /\ gen \in {"created", "suspended"}
    /\ gen' = "iter"
    /\ pending' = TRUE
    /\ UNCHANGED << pc, chunked, err, parsed_response, result, sendCalls, conn,
                    closeCalls, closeOutcome, cur, lines, ended, failed,
                    yielded, last, closed >>

\* next(sequence) on a generator that has returned or raised: StopIteration
caller_next_exhausted ==
    /\ pc = "returned"
    /\ chunked
    /\ ~pending
    /\ gen = "done"
    /\ last' = "StopIteration"
    /\ UNCHANGED << pc, chunked, err, parsed_response, result, sendCalls, conn,
                    closeCalls, closeOutcome, gen, cur, lines, ended, failed,
                    yielded, pending, closed >>

\* sequence.close(), or the last reference to it dropped, before it is
\* exhausted: GeneratorExit at the yield (or no start at all); parse_chunks
\* has no finally clause and nothing calls response.close()
caller_close ==
    /\ pc = "returned"
    /\ chunked
    /\ ~pending
    /\ gen \in {"created", "suspended"}
    /\ gen' = "done"
    /\ closed' = TRUE
    /\ UNCHANGED << pc, chunked, err, parsed_response, result, sendCalls, conn,
                    closeCalls, closeOutcome, cur, lines, ended, failed,
                    yielded, pending, last >>

----------------------------------------------------------------------------
Next ==
    \/ enter_prompt_call
    \/ send_request_ok
    \/ send_request_fails
    \/ parse_response_chunked
    \/ parse_response_join
    \/ iter_lines_next
    \/ iter_lines_end
    \/ iter_lines_fails
    \/ parse_chunks_body
    \/ join_done
    \/ response_close
    \/ enter_prompt_return
    \/ caller_next
    \/ caller_next_exhausted
    \/ caller_close

Spec == Init /\ [][Next]_vars

----------------------------------------------------------------------------
\* What the stream holds, read off the lines themselves

\* a content event in the wire format {"type": "content", "content": "<f>"}
IsContentEvent(line) == \E f \in Fragments : line = ContentLine(f)
FragmentOf(line) == CHOOSE f \in Fragments : line = ContentLine(f)
ContentFragments(stream) ==
    LET ev == SelectSeq(stream, IsContentEvent)
    IN  [i \in 1..Len(ev) |-> FragmentOf(ev[i])]

\* a line that is JSON with "type" equal to "content", however it is spaced
IsJsonContentEvent(line) ==
    /\ line # << >>
    /\ Decodable(line)
    /\ json_loads(line).ok
    /\ HasKey(json_loads(line).obj, T_type)
    /\ JsonGet(json_loads(line).obj, T_type) = T_content
    /\ HasKey(json_loads(line).obj, T_content)
JsonContentFragments(stream) ==
    LET ev == SelectSeq(stream, IsJsonContentEvent)
    IN  [i \in 1..Len(ev) |-> JsonGet(json_loads(ev[i]).obj, T_content)]

\* a stream in which every line is empty or an event in the wire format
WellFormedLine(line) ==
    \/ line \in {EmptyLine, StatusLine, CompactStatusLine}
    \/ IsContentEvent(line)
WellFormedStream(stream) == \A i \in 1..Len(stream) : WellFormedLine(stream[i])

\* the lines the loop body has already handled
ProcessedLines == IF gen = "line" THEN SubSeq(lines, 1, Len(lines) - 1) ELSE lines

ParseErrors == {"JSONDecodeError", "UnicodeDecodeError", "KeyError"}
Finished == pc \in {"returned", "raised"}

SpacedScenario == << ContentLine(Hi), StatusLine, ContentLine(There) >>
CompactScenario ==
    << CompactContentLine(Hi), CompactStatusLine, CompactContentLine(There) >>

----------------------------------------------------------------------------
\* C1: for every response stream that is delivered without a transport
\* failure, aggregate mode returns the concatenation, in arrival order, of
\* the fragments of the stream's content events (the empty string when there
\* is none): parse_response comes back with that string and enter_prompt
\* returns it.
C1_AggregateIsConcatenation ==
    /\ (~chunked /\ conn # "none" /\ ~failed
            /\ pc \in {"check", "ret", "returned", "raised"})
          => parsed_response = StrValue(Join(ContentFragments(lines)))
    /\ (~chunked /\ pc = "returned")
          => result = StrValue(Join(ContentFragments(lines)))

\* C2: on a well-formed stream, streaming mode has yielded exactly the
\* fragments of the content events handled so far, in order and once each;
\* when the stream ends the sequence is finished with all of them, without
\* an error; and a finished sequence never yields again.
C2_StreamingYieldsInOrder ==
    /\ [](chunked /\ WellFormedStream(lines) /\ ~failed =>
            /\ yielded = ContentFragments(ProcessedLines)
            /\ last \in {"none", "fragment", "StopIteration"}
            /\ ended => (gen = "done" /\ ~pending /\ yielded = ContentFragments(lines)))
    /\ [][chunked /\ gen = "done" => gen' = "done" /\ yielded' = yielded]_vars

C2_Witness ==
    /\ chunked
    /\ ended
    /\ lines = << ContentLine(Hi), StatusLine, ContentLine(There) >>
    /\ yielded = << Hi, There >>
    /\ last = "StopIteration"

\* C3: in both modes a line that is no content event is skipped: no parse
\* error ever reaches the caller, and what has been yielded is exactly the
\* fragments of the content events among the lines handled.
C3_MalformedLinesSkipped ==
    /\ err \notin ParseErrors
    /\ last \notin ParseErrors
    /\ yielded = ContentFragments(ProcessedLines)

\* C4 (as claimed): every line that is JSON with "type" equal to "content"
\* is a content event whatever its white space; the scenario stream without
\* spaces gives "Hi there" in aggregate mode and ["Hi", " there"] in
\* streaming mode.
C4_AnyWhitespace ==
    /\ ended => yielded = JsonContentFragments(lines)
    /\ (ended /\ lines = CompactScenario) => yielded = << Hi, There >>
    /\ (~chunked /\ pc = "returned" /\ lines = CompactScenario)
          => result = StrValue(Hi \o There)

\* C4 (amended): the content events are the lines in the wire format, with
\* one space after ':' and ','; a stream read to its end yields their
\* fragments and no others; the scenario stream in the wire format gives
\* "Hi there" and ["Hi", " there"], the one without spaces gives "" and [].
C4_WireFormatOnly ==
    /\ ended => yielded = ContentFragments(lines)
    /\ (ended /\ lines = SpacedScenario) => yielded = << Hi, There >>
    /\ (~chunked /\ pc = "returned" /\ lines = SpacedScenario)
          => result = StrValue(Hi \o There)
    /\ (ended /\ lines = CompactScenario) => yielded = << >>
    /\ (~chunked /\ pc = "returned" /\ lines = CompactScenario)
          => result = StrValue(<< >>)

C4_Witness ==
    /\ ~chunked
    /\ pc = "returned"
    /\ lines = CompactScenario
    /\ result = StrValue(<< >>)

\* C5 (as claimed): in aggregate mode response.close() is called at most
\* once and only after the stream has been read to its end; a call that
\* has returned made it; and once the stream is read to its end the call
\* returns the aggregated string, whatever close() did.
C5_AnyReleaseErrorSwallowed ==
    /\ closeCalls <= 1
    /\ closeCalls = 1 => (~chunked /\ ended /\ gen = "done")
    /\ (~chunked /\ pc = "returned") => closeCalls = 1
    /\ (~chunked /\ ended /\ Finished)
          => (pc = "returned" /\ result = StrValue(Join(yielded)))

\* C5 (amended): the same, the call returning the aggregated string when
\* close() succeeds or raises StreamConsumedError or another
\* requests.RequestException.
C5_RequestErrorsSwallowed ==
    /\ closeCalls <= 1
    /\ closeCalls = 1 => (~chunked /\ ended /\ gen = "done")
    /\ (~chunked /\ pc = "returned") => closeCalls = 1
    /\ (~chunked /\ ended /\ Finished
            /\ closeOutcome \in {"ok", "StreamConsumedError", "RequestException"})
          => (pc = "returned" /\ result = StrValue(Join(yielded)))

C5_Witness ==
    /\ ~chunked
    /\ pc = "returned"
    /\ closeOutcome = "StreamConsumedError"
    /\ closeCalls = 1
    /\ result = StrValue(Hi \o There)

\* C6: in streaming mode, once the caller has closed or dropped the lazy
\* sequence before its end, the connection is released.
C6_ClosedSequenceReleases == closed => conn = "released"

\* C7: in aggregate mode a transport failure, of send_request or of a read
\* in mid-stream, ends the call with the transport error raised, nothing
\* returned and nothing kept of the fragments read; send_request is never
\* called a second time.
C7_NoPartialResult ==
    /\ sendCalls <= 1
    /\ (~chunked /\ (failed \/ (sendCalls = 1 /\ conn = "none")))
          => /\ pc = "raised"
             /\ err = "TransportError"
             /\ result = NoValue
             /\ parsed_response = NoValue

C7_Witness ==
    /\ ~chunked
    /\ failed
    /\ yielded = << Hi, There >>
    /\ pc = "raised"

\* C8: in streaming mode nothing is read before enter_prompt has returned
\* and the caller has asked for a fragment; the stream is read only while a
\* request of the caller is pending; between requests every content event
\* read has been delivered, and during one at most one has not.
C8_PullBased ==
    /\ [](chunked =>
            /\ (pc # "returned" \/ gen = "created")
                  => (lines = << >> /\ ~ended /\ ~failed)
            /\ Len(SelectSeq(lines, IsContentEvent)) <= Len(yielded) + 1
            /\ ~pending => Len(SelectSeq(lines, IsContentEvent)) = Len(yielded))
    /\ [][(chunked /\ (lines' # lines \/ ended' # ended \/ failed' # failed))
            => pending]_vars

C8_Witness ==
    /\ chunked
    /\ pending
    /\ gen = "line"
    /\ Len(yielded) = 1
    /\ Len(SelectSeq(lines, IsContentEvent)) = 2

\* C9: in streaming mode a transport failure of a read ends the sequence
\* there: the caller has the fragments of the content events read before
\* it, in order, gets none afterwards, and finds the sequence ended at
\* every later request.
C9_FailureEndsSequence ==
    /\ [](chunked /\ failed =>
            /\ gen = "done"
            /\ ~pending
            /\ yielded = ContentFragments(lines)
            /\ last \in {"TransportError", "StopIteration"})
    /\ [][(chunked /\ failed) =>
            /\ yielded' = yielded
            /\ lines' = lines
            /\ last' \in {last, "StopIteration"}]_vars

C9_Witness ==
    /\ chunked
    /\ failed
    /\ yielded = << Hi >>
    /\ Len(lines) = 2
    /\ last = "StopIteration"

\* C10: every aggregate call that got a response has called
\* response.close() by the time it returns or raises.
C10_ReleasedOnEveryExit ==
    (~chunked /\ conn # "none" /\ Finished) => closeCalls >= 1

====
